---- MODULE Spec2Model ----
(***************************************************************************)
(* The application-lifecycle workflow of the job-board backend: the Job,   *)
(* Application and Chat collections of the document store, the request     *)
(* handlers that read and write them and the middleware in front of them.  *)
(* A handler is an async function; it                                      *)
(* gives up control at every await of a store call, so each action below   *)
(* is one awaited store call together with the synchronous code that       *)
(* follows it up to the next await (or up to the response).  The           *)
(* synchronous code before a handler's first await touches no shared       *)
(* state and is part of the handler's first action.                        *)
(***************************************************************************)
EXTENDS Integers, Sequences, FiniteSets, TLC

\* ------------------------------------------------------------------ bounds
\* The identities that can send requests, and the requests that can be in
\* flight at the same time.
Users == {"u1", "u2"}
Companies == {"c1", "c2"}
Reqs == {1, 2}

\* How many requests the server receives in a run.
MaxRequests == 4

\* ------------------------------------------------------------ the schemas
JobStatuses == {"active", "closed", "draft"}
ApplicationStatuses == {"pending", "reviewed", "interviewing", "rejected", "accepted"}

\* What a query returns when no document matches (null).
NoJob == [id |-> 0, company |-> "none", status |-> "none"]
NoApplication == [id |-> 0, job |-> 0, user |-> "none", company |-> "none", status |-> "none"]

VARIABLES
    received,      \* requests received so far
    jobs,          \* the Job collection: a set of [id, company, status]
    jobCount,      \* Job documents inserted so far
    applications,  \* the Application collection: [id, job, user, company, status]
    appCount,      \* Application documents inserted so far
    chats,         \* the Chat collection: [id, applicationId, userId, companyId, jobId, messages, v]
    chatFailed,    \* applications whose Chat save threw (the console.error log of applyForJob)
    reqs           \* per request slot: the handler running in it, where it is, its locals, its response

vars == <<received, jobs, jobCount, applications, appCount, chats, chatFailed, reqs>>
store == <<jobs, jobCount, applications, appCount, chats, chatFailed>>

\* Request inputs.  ObjectIds are fresh and never reused: the n-th insert into
\* a collection gets id n.  A request can name every id given out so far and
\* one id no document has; job id 0 stands for a missing jobId.  "" stands for
\* a field missing from the body and "hired" for a status outside the enum.
JobIdInputs == 0..(jobCount + 1)
ApplicationIdInputs == 1..(appCount + 1)
StatusInputs == ApplicationStatuses \cup {"", "hired"}
JobStatusInputs == JobStatuses \cup {""}

\* --------------------------------------------------------------- requests
NoRes == [status |-> 0, message |-> "", error |-> ""]
Idle == [op |-> "none", pc |-> "idle", actor |-> "none", jobId |-> 0,
         applicationId |-> 0, company |-> "none", status |-> "", res |-> NoRes,
         chatId |-> 0, content |-> "", marked |-> {}, version |-> 0, body |-> {},
         filter |-> <<>>, page |-> 0, limit |-> 0, bodyCompany |-> "none",
         loadedStatus |-> ""]

\* res.status(st).json({message: msg, error: err}); the handler's locals die.
\* appId is the application id a success body carries (0 otherwise).
Responded(op, st, msg, err, appId) ==
    [Idle EXCEPT !.op = op, !.pc = "done", !.applicationId = appId,
                 !.res = [status |-> st, message |-> msg, error |-> err]]

\* A slot can take a new request when no handler is running in it.  Requests
\* are anonymous, so a new one takes the first such slot.
Vacant(r) == reqs[r].pc \in {"idle", "done"}
Free(r) == Vacant(r) /\ \A q \in Reqs : q < r => ~Vacant(q)

\* The server receives a request / a handler already running goes on.
Receive == received < MaxRequests /\ received' = received + 1
Resume == UNCHANGED received

Init ==
    /\ received = 0
    /\ jobs = {}
    /\ jobCount = 0
    /\ applications = {}
    /\ appCount = 0
    /\ chats = {}
    /\ chatFailed = {}
    /\ reqs = [r \in Reqs |-> Idle]

\* ------------------------------------------------------------ store calls
\* Job.findById(id)
JobFindById(id) ==
    IF \E j \in jobs : j.id = id THEN CHOOSE j \in jobs : j.id = id ELSE NoJob

\* Application.findById(id)
ApplicationFindById(id) ==
    IF \E a \in applications : a.id = id
    THEN CHOOSE a \in applications : a.id = id ELSE NoApplication

\* Application.findOne({job, user})
ApplicationFindOneByJobUser_missing(j, u) == NoApplication
ApplicationFindOneByJobUser(j, u) ==
    IF \E a \in applications : a.job = j /\ a.user = u
    THEN CHOOSE a \in applications : a.job = j /\ a.user = u ELSE NoApplication

\* Application.findOne({_id, user})
ApplicationFindOneByIdUser_anyuser(id, u) == ApplicationFindById(id)
ApplicationFindOneByIdUser(id, u) ==
    IF \E a \in applications : a.id = id /\ a.user = u
    THEN CHOOSE a \in applications : a.id = id /\ a.user = u ELSE NoApplication

\* The unique index {job: 1, user: 1}: an insert is accepted only when no
\* stored Application has the same (job, user).
UniqueJobUser_noindex(doc) == TRUE
UniqueJobUser(doc) ==
    \A a \in applications : ~(a.job = doc.job /\ a.user = doc.user)

\* The unique index on Chat.applicationId.
UniqueApplicationId_noindex(doc) == TRUE
UniqueApplicationId(doc) ==
    \A c \in chats : c.applicationId # doc.applicationId

\* ------------------------------------------------------------ applyForJob
\* job.status !== 'active' is the rejection; this is its negation.
JobIsActive_notclosed(job) == job.status # "closed"
JobIsActive(job) == job.status = "active"

\* new Application({job, user, company: job.company, ..., status: 'pending'})
NewApplication_nocompany(id, jobId, userId, company) ==
    [id |-> id, job |-> jobId, user |-> userId, company |-> "none", status |-> "pending"]
NewApplication(id, jobId, userId, company) ==
    [id |-> id, job |-> jobId, user |-> userId, company |-> company, status |-> "pending"]

\* new Chat({applicationId, userId, companyId: job.company, jobId, messages: [...]})
\* v is the document's version key (__v), 0 in a new document.
NewChat_usersender(id, applicationId, userId, company, jobId) ==
    [id |-> id, applicationId |-> applicationId, userId |-> userId,
     companyId |-> company, jobId |-> jobId,
     messages |-> <<[sender |-> userId, content |-> "Thank you for applying", isRead |-> FALSE]>>,
     v |-> 0]
NewChat(id, applicationId, userId, company, jobId) ==
    [id |-> id, applicationId |-> applicationId, userId |-> userId,
     companyId |-> company, jobId |-> jobId,
     messages |-> <<[sender |-> company, content |-> "Thank you for applying", isRead |-> FALSE]>>,
     v |-> 0]

\* await Job.findById(jobId), then the two job checks.
applyForJob_JobFindById(r, u, jobId) ==
    /\ Free(r) /\ Receive
    /\ UNCHANGED store
    /\ LET job == JobFindById(jobId) IN
       reqs' = [reqs EXCEPT ![r] =
           IF jobId = 0 THEN Responded("applyForJob", 400, "Job ID is required.", "", 0)
           ELSE IF job = NoJob THEN Responded("applyForJob", 404, "Job not found.", "", 0)
           ELSE IF ~JobIsActive(job)
                THEN Responded("applyForJob", 400, "This job posting is no longer active", "", 0)
           ELSE [Idle EXCEPT !.op = "applyForJob", !.pc = "ApplicationFindOne",
                             !.actor = u, !.jobId = jobId, !.company = job.company]]

\* await Application.findOne({job, user}), then the duplicate check.
applyForJob_ApplicationFindOne(r) ==
    /\ reqs[r].op = "applyForJob" /\ reqs[r].pc = "ApplicationFindOne"
    /\ Resume
    /\ UNCHANGED store
    /\ LET existingApplication == ApplicationFindOneByJobUser(reqs[r].jobId, reqs[r].actor) IN
       reqs' = [reqs EXCEPT ![r] =
           IF existingApplication # NoApplication
           THEN Responded("applyForJob", 400, "You have already applied for this job.", "", 0)
           ELSE [@ EXCEPT !.pc = "applicationSave"]]

\* await application.save(): the insert, or the unique index's E11000, which
\* the catch block turns into a 500.
applyForJob_applicationSave(r) ==
    /\ reqs[r].op = "applyForJob" /\ reqs[r].pc = "applicationSave"
    /\ Resume
    /\ LET application == NewApplication(appCount + 1, reqs[r].jobId, reqs[r].actor, reqs[r].company) IN
       IF UniqueJobUser(application)
       THEN /\ applications' = applications \cup {application}
            /\ appCount' = appCount + 1
            /\ reqs' = [reqs EXCEPT ![r] = [@ EXCEPT !.pc = "newChatSave",
                                                    !.applicationId = application.id]]
       ELSE /\ UNCHANGED <<applications, appCount>>
            /\ reqs' = [reqs EXCEPT ![r] =
                   Responded("applyForJob", 500, "Server error while submitting application.",
                             "E11000 duplicate key", 0)]
    /\ UNCHANGED <<jobs, jobCount, chats, chatFailed>>

\* What the catch block does to the Application collection after the Chat
\* save threw: nothing.
applyForJob_catch_rollback(apps, savedId) == {a \in apps : a.id # savedId}
applyForJob_catch(apps, savedId) == apps

\* The store's side of a successful newChat.save(): the document is inserted.
ChatInsert_lost(doc) == chats
ChatInsert(doc) == chats \cup {doc}

\* await newChat.save(), then the 201.  The store may reject the write
\* (storeUp = FALSE), and so does the unique index on applicationId.
applyForJob_newChatSave(r, storeUp) ==
    /\ reqs[r].op = "applyForJob" /\ reqs[r].pc = "newChatSave"
    /\ Resume
    /\ LET newChat == NewChat(Cardinality(chats) + 1, reqs[r].applicationId, reqs[r].actor,
                              reqs[r].company, reqs[r].jobId) IN
       IF storeUp /\ UniqueApplicationId(newChat)
       THEN /\ chats' = ChatInsert(newChat)
            /\ UNCHANGED <<applications, chatFailed>>
            /\ reqs' = [reqs EXCEPT ![r] =
                   Responded("applyForJob", 201, "Application submitted successfully.", "",
                             reqs[r].applicationId)]
       ELSE /\ UNCHANGED chats
            /\ applications' = applyForJob_catch(applications, reqs[r].applicationId)
            /\ chatFailed' = chatFailed \cup {reqs[r].applicationId}
            /\ reqs' = [reqs EXCEPT ![r] =
                   Responded("applyForJob", 500, "Server error while submitting application.",
                             "Chat save failed", 0)]
    /\ UNCHANGED <<jobs, jobCount, appCount>>

\* ---------------------------------------------------- withdrawApplication
\* ['pending', 'reviewed'].includes(application.status)
Withdrawable_notfinal(status) == status \notin {"rejected", "accepted"}
Withdrawable_interviewing(status) == status \in {"pending", "reviewed", "interviewing"}
Withdrawable(status) == status \in {"pending", "reviewed"}

\* await Application.findOne({_id, user}), then the status check: what the
\* handler has answered, or where it is, after the lookup.  The record of a
\* 404 keeps whose request it answered and for which id (req.user.id,
\* req.params.applicationId); they are not part of the response.
withdrawApplication_lookup(u, applicationId) ==
    LET application == ApplicationFindOneByIdUser(applicationId, u) IN
    IF application = NoApplication
    THEN [Responded("withdrawApplication", 404, "Application not found", "", 0)
             EXCEPT !.actor = u, !.applicationId = applicationId]
    ELSE IF ~Withdrawable(application.status)
         THEN Responded("withdrawApplication", 400, "Cannot withdraw application", "", 0)
    ELSE [Idle EXCEPT !.op = "withdrawApplication", !.pc = "findByIdAndDelete",
                      !.actor = u, !.applicationId = applicationId]

withdrawApplication_findOne(r, u, applicationId) ==
    /\ Free(r) /\ Receive
    /\ UNCHANGED store
    /\ reqs' = [reqs EXCEPT ![r] = withdrawApplication_lookup(u, applicationId)]

\* await Application.findByIdAndDelete(applicationId), then the 200.  Deleting
\* an id that is already gone is no error.
withdrawApplication_findByIdAndDelete(r) ==
    /\ reqs[r].op = "withdrawApplication" /\ reqs[r].pc = "findByIdAndDelete"
    /\ Resume
    /\ applications' = {a \in applications : a.id # reqs[r].applicationId}
    /\ reqs' = [reqs EXCEPT ![r] =
           Responded("withdrawApplication", 200, "Application withdrawn successfully", "", 0)]
    /\ UNCHANGED <<jobs, jobCount, appCount, chats, chatFailed>>

\* ------------------------------------------------ updateApplicationStatus
\* status && [...the five values...].includes(status)
ValidStatus(status) == status \in ApplicationStatuses

\* The status check, then await Application.findById(id).populate('job') and
\* the ownership check.  populate leaves job null when the Job document is
\* gone, and job.company then throws a TypeError into the catch block.
updateApplicationStatus_findById(r, c, applicationId, status) ==
    /\ Free(r) /\ Receive
    /\ UNCHANGED store
    /\ LET application == ApplicationFindById(applicationId)
           job == JobFindById(application.job)
       IN
       reqs' = [reqs EXCEPT ![r] =
           IF ~ValidStatus(status)
           THEN Responded("updateApplicationStatus", 400, "Invalid status", "", 0)
           ELSE IF application = NoApplication
                THEN Responded("updateApplicationStatus", 404, "Application not found.", "", 0)
           ELSE IF job = NoJob
                THEN Responded("updateApplicationStatus", 500,
                               "Server error while updating application status", "TypeError", 0)
           ELSE IF job.company # c
                THEN Responded("updateApplicationStatus", 403,
                               "Not authorized to update this application.", "", 0)
           ELSE [Idle EXCEPT !.op = "updateApplicationStatus", !.pc = "save", !.actor = c,
                             !.applicationId = applicationId, !.status = status,
                             !.loadedStatus = application.status]]

\* application.status = status, whatever the status was.
SetStatus_final(application, status) ==
    IF application.status \in {"rejected", "accepted"} THEN application
    ELSE [application EXCEPT !.status = status]
SetStatus(application, status) == [application EXCEPT !.status = status]

\* Whether the assignment modified the document: Mongoose marks a path as
\* modified when the value set differs from the value the document was loaded
\* with.
StatusModified(loadedStatus, status) == status # loadedStatus

\* application.status = status; await application.save().  save() sends the
\* modified paths only, as an update of the stored document by _id; for a
\* document without modified paths it sends no update and only looks the
\* document up.  When the document is gone it throws DocumentNotFoundError.
\* The 200 carries application: {id, status, updatedAt}, the status being
\* that of the document in memory; the record keeps the status the document
\* was loaded with.
updateApplicationStatus_save(r) ==
    /\ reqs[r].op = "updateApplicationStatus" /\ reqs[r].pc = "save"
    /\ Resume
    /\ IF ApplicationFindById(reqs[r].applicationId) # NoApplication
       THEN /\ applications' = {IF /\ a.id = reqs[r].applicationId
                                   /\ StatusModified(reqs[r].loadedStatus, reqs[r].status)
                                THEN SetStatus(a, reqs[r].status) ELSE a
                                : a \in applications}
            /\ reqs' = [reqs EXCEPT ![r] =
                   [Responded("updateApplicationStatus", 200,
                              "Application status updated successfully", "", reqs[r].applicationId)
                       EXCEPT !.status = reqs[r].status,
                              !.loadedStatus = reqs[r].loadedStatus]]
       ELSE /\ UNCHANGED applications
            /\ reqs' = [reqs EXCEPT ![r] =
                   Responded("updateApplicationStatus", 500,
                             "Server error while updating application status",
                             "DocumentNotFoundError", 0)]
    /\ UNCHANGED <<jobs, jobCount, appCount, chats, chatFailed>>

\* ---------------------------------------------------------- jobController
\* The required-field check, then await job.save() and the 201.
\* fieldsPresent: the body carries all eight required fields.
\* status: the body's status ("" when absent), status || 'active'.
createJob(r, c, fieldsPresent, status) ==
    /\ Free(r) /\ Receive
    /\ IF ~fieldsPresent
       THEN /\ UNCHANGED <<jobs, jobCount>>
            /\ reqs' = [reqs EXCEPT ![r] = Responded("createJob", 400, "Missing required fields", "", 0)]
       ELSE /\ jobs' = jobs \cup {[id |-> jobCount + 1, company |-> c,
                                    status |-> IF status = "" THEN "active" ELSE status]}
            /\ jobCount' = jobCount + 1
            /\ reqs' = [reqs EXCEPT ![r] = Responded("createJob", 201, "Job posted successfully", "", 0)]
    /\ UNCHANGED <<applications, appCount, chats, chatFailed>>

\* job.company.toString() !== req.company.id is the 403 of updateJob and
\* deleteJob; this is its negation.
OwnsJob_any(job, companyId) == TRUE
OwnsJob(job, companyId) == job.company = companyId

\* updateData: the fields of req.body that are in updateableFields.  Of a
\* body the model has status, which is in the list, and company, which is not
\* ("" and "none" when the body has no such field).
UpdateData_anyfield(status, company) == [status |-> status, company |-> company]
UpdateData(status, company) == [status |-> status, company |-> "none"]

\* await Job.findById(jobId), then the ownership check and the allow-list.
updateJob_findById(r, c, jobId, status, company) ==
    /\ Free(r) /\ Receive
    /\ UNCHANGED store
    /\ LET job == JobFindById(jobId)
           updateData == UpdateData(status, company)
       IN
       reqs' = [reqs EXCEPT ![r] =
           IF job = NoJob THEN Responded("updateJob", 404, "Job not found", "", 0)
           ELSE IF ~OwnsJob(job, c)
                THEN Responded("updateJob", 403, "Not authorized to update this job posting", "", 0)
           ELSE [Idle EXCEPT !.op = "updateJob", !.pc = "findByIdAndUpdate", !.actor = c,
                             !.jobId = jobId, !.status = updateData.status,
                             !.company = updateData.company, !.bodyCompany = company]]

\* await Job.findByIdAndUpdate(jobId, {$set: updateData}), then the 200.  An
\* id that is gone updates nothing and is no error.
updateJob_findByIdAndUpdate(r) ==
    /\ reqs[r].op = "updateJob" /\ reqs[r].pc = "findByIdAndUpdate"
    /\ Resume
    /\ jobs' = {IF j.id = reqs[r].jobId
                THEN [j EXCEPT !.status = IF reqs[r].status # "" THEN reqs[r].status ELSE @,
                               !.company = IF reqs[r].company # "none" THEN reqs[r].company ELSE @]
                ELSE j : j \in jobs}
    /\ reqs' = [reqs EXCEPT ![r] =
           [Responded("updateJob", 200, "Job updated successfully", "", 0) EXCEPT
               !.bodyCompany = reqs[r].bodyCompany]]
    /\ UNCHANGED <<jobCount, applications, appCount, chats, chatFailed>>

\* await Job.findById(jobId), then the ownership check.
deleteJob_findById(r, c, jobId) ==
    /\ Free(r) /\ Receive
    /\ UNCHANGED store
    /\ LET job == JobFindById(jobId) IN
       reqs' = [reqs EXCEPT ![r] =
           IF job = NoJob THEN Responded("deleteJob", 404, "Job not found", "", 0)
           ELSE IF ~OwnsJob(job, c)
                THEN Responded("deleteJob", 403, "Not authorized to delete this job posting", "", 0)
           ELSE [Idle EXCEPT !.op = "deleteJob", !.pc = "findByIdAndDelete", !.actor = c,
                             !.jobId = jobId]]

\* Job.findByIdAndDelete(id): the collection without the document of that id.
JobFindByIdAndDelete_all(id) == {}
JobFindByIdAndDelete(id) == {j \in jobs : j.id # id}

\* await Job.findByIdAndDelete(jobId), then the 200.  Nothing else is deleted.
deleteJob_findByIdAndDelete(r) ==
    /\ reqs[r].op = "deleteJob" /\ reqs[r].pc = "findByIdAndDelete"
    /\ Resume
    /\ jobs' = JobFindByIdAndDelete(reqs[r].jobId)
    /\ reqs' = [reqs EXCEPT ![r] = Responded("deleteJob", 200, "Job deleted successfully", "", 0)]
    /\ UNCHANGED <<jobCount, applications, appCount, chats, chatFailed>>

\* --------------------------------------------------------- chatController
\* The handlers of the chat routes run behind the auth middleware, which sets
\* req.user or req.company; user and company below are the ids in them,
\* "none" when the field is not set.
ChatIdInputs == 1..(Cardinality(chats) + 1)
ContentInputs == {"", "hello"}

NoChat == [id |-> 0, applicationId |-> 0, userId |-> "none", companyId |-> "none",
           jobId |-> 0, messages |-> <<>>, v |-> 0]

\* Chat.findById(chatId)
ChatFindById(id) ==
    IF \E c \in chats : c.id = id THEN CHOOSE c \in chats : c.id = id ELSE NoChat

\* Chat.findOne({applicationId})
ChatFindOneByApplicationId_missing(applicationId) == NoChat
ChatFindOneByApplicationId(applicationId) ==
    IF \E c \in chats : c.applicationId = applicationId
    THEN CHOOSE c \in chats : c.applicationId = applicationId ELSE NoChat

\* populate() of a path whose ref is 'User': the document of the User
\* collection with that _id, null when there is none.  Chat.userId and
\* Chat.companyId both have ref 'User'; companies are documents of the Company
\* collection.
PopulateUser(id) == IF id \in Users THEN id ELSE "null"

\* const senderId / currentUserId = req.user ? req.user.id : req.company.id
RequesterId(user, company) == IF user # "none" THEN user ELSE company

\* The condition of the 403 in sendMessage and markChatAsRead:
\* (req.user && chat.userId !== req.user.id) ||
\* (req.company && chat.companyId !== req.company.id)
NotPartOfChat(user, company, chat) ==
    \/ user # "none" /\ chat.userId # user
    \/ company # "none" /\ chat.companyId # company

\* getChatById: await Chat.findById(chatId) with userId, companyId and jobId
\* populated, then the same condition on the populated documents' _id, left
\* to right; reading _id of a path populated with null throws a TypeError.
getChatById(r, user, company, chatId) ==
    /\ Free(r) /\ Receive
    /\ UNCHANGED store
    /\ LET chat == ChatFindById(chatId)
           userDoc == PopulateUser(chat.userId)
           companyDoc == PopulateUser(chat.companyId)
           threw == Responded("getChatById", 500, "Server error while fetching chat", "TypeError", 0)
           denied == Responded("getChatById", 403,
                               "You do not have permission to access this chat", "", 0)
       IN
       reqs' = [reqs EXCEPT ![r] =
           IF user = "none" /\ company = "none"
           THEN Responded("getChatById", 401, "Authentication required", "", 0)
           ELSE IF chat = NoChat THEN Responded("getChatById", 404, "Chat not found", "", 0)
           ELSE IF user # "none" /\ userDoc = "null" THEN threw
           ELSE IF user # "none" /\ userDoc # user THEN denied
           ELSE IF company # "none" /\ companyDoc = "null" THEN threw
           ELSE IF company # "none" /\ companyDoc # company THEN denied
           ELSE [Responded("getChatById", 200, "", "", 0) EXCEPT !.body = {chat}]]

\* sendMessage: the content check, then await Chat.findById(chatId) and the
\* participant check; the message is pushed onto the loaded document.
sendMessage_findById(r, user, company, chatId, content) ==
    /\ Free(r) /\ Receive
    /\ UNCHANGED store
    /\ LET chat == ChatFindById(chatId) IN
       reqs' = [reqs EXCEPT ![r] =
           IF user = "none" /\ company = "none"
           THEN Responded("sendMessage", 401, "Authentication required", "", 0)
           ELSE IF content = ""
                THEN Responded("sendMessage", 400, "Message content is required", "", 0)
           ELSE IF chat = NoChat THEN Responded("sendMessage", 404, "Chat not found", "", 0)
           ELSE IF NotPartOfChat(user, company, chat)
                THEN Responded("sendMessage", 403,
                               "You do not have permission to send messages in this chat", "", 0)
           ELSE [Idle EXCEPT !.op = "sendMessage", !.pc = "save",
                             !.actor = RequesterId(user, company),
                             !.chatId = chatId, !.content = content]]

\* chat.messages.push({sender, content, timestamp, isRead: false})
NewMessage_read(sender, content) == [sender |-> sender, content |-> content, isRead |-> TRUE]
NewMessage(sender, content) == [sender |-> sender, content |-> content, isRead |-> FALSE]

\* What the $push of a save does to the stored array: the element goes to
\* its end.
MessagesPush_front(messages, message) == <<message>> \o messages
MessagesPush(messages, message) == Append(messages, message)

\* await chat.save() of a document whose change is a push onto messages: the
\* store appends the element to the stored array ($push) and increments the
\* version key; then the 201.
sendMessage_save(r) ==
    /\ reqs[r].op = "sendMessage" /\ reqs[r].pc = "save"
    /\ Resume
    /\ chats' = {IF c.id = reqs[r].chatId
                 THEN [c EXCEPT !.messages = MessagesPush(@, NewMessage(reqs[r].actor,
                                                                        reqs[r].content)),
                                !.v = @ + 1]
                 ELSE c : c \in chats}
    /\ reqs' = [reqs EXCEPT ![r] = [Responded("sendMessage", 201, "", "", 0) EXCEPT
                                       !.chatId = reqs[r].chatId]]
    /\ UNCHANGED <<jobs, jobCount, applications, appCount, chatFailed>>

\* The forEach of markChatAsRead: the positions whose isRead it sets, those of
\* the unread messages the requester did not send.
MarkedAsRead(chat, currentUserId) ==
    {i \in 1..Len(chat.messages) :
        chat.messages[i].sender # currentUserId /\ ~chat.messages[i].isRead}

\* markChatAsRead: await Chat.findById(chatId), the participant check and the
\* forEach; when nothing was updated the 200 follows without a save.
markChatAsRead_findById(r, user, company, chatId) ==
    /\ Free(r) /\ Receive
    /\ UNCHANGED store
    /\ LET chat == ChatFindById(chatId)
           marked == MarkedAsRead(chat, RequesterId(user, company))
       IN
       reqs' = [reqs EXCEPT ![r] =
           IF user = "none" /\ company = "none"
           THEN Responded("markChatAsRead", 401, "Authentication required", "", 0)
           ELSE IF chat = NoChat THEN Responded("markChatAsRead", 404, "Chat not found", "", 0)
           ELSE IF NotPartOfChat(user, company, chat)
                THEN Responded("markChatAsRead", 403,
                               "You do not have permission to access this chat", "", 0)
           ELSE IF marked = {}
                THEN [Responded("markChatAsRead", 200, "Messages marked as read", "", 0)
                         EXCEPT !.chatId = chatId]
           ELSE [Idle EXCEPT !.op = "markChatAsRead", !.pc = "save",
                             !.actor = RequesterId(user, company), !.chatId = chatId,
                             !.marked = marked, !.version = chat.v]]

\* await chat.save() of a document whose change is isRead of elements of
\* messages: the update sets messages.<i>.isRead by position and is
\* conditioned on the version key the document was loaded with.  When the
\* stored version differs (a push came in between) no document matches and
\* save() throws VersionError into the catch block.
markChatAsRead_save(r) ==
    /\ reqs[r].op = "markChatAsRead" /\ reqs[r].pc = "save"
    /\ Resume
    /\ IF ChatFindById(reqs[r].chatId).v = reqs[r].version
       THEN /\ chats' = {IF c.id = reqs[r].chatId
                         THEN [c EXCEPT !.messages =
                                  [i \in 1..Len(@) |->
                                      IF i \in reqs[r].marked THEN [@[i] EXCEPT !.isRead = TRUE]
                                      ELSE @[i]]]
                         ELSE c : c \in chats}
            /\ reqs' = [reqs EXCEPT ![r] =
                   [Responded("markChatAsRead", 200, "Messages marked as read", "", 0)
                       EXCEPT !.chatId = reqs[r].chatId]]
       ELSE /\ UNCHANGED chats
            /\ reqs' = [reqs EXCEPT ![r] =
                   [Responded("markChatAsRead", 500, "Server error while marking messages as read",
                              "VersionError", 0) EXCEPT !.chatId = reqs[r].chatId]]
    /\ UNCHANGED <<jobs, jobCount, applications, appCount, chatFailed>>

\* createChatForApplication(application): await Job.findById(application.job);
\* without the job it logs and returns, otherwise it calls createChat.  It is
\* called with an Application document its caller holds.
createChatForApplication_JobFindById(r, application) ==
    /\ Free(r) /\ Receive
    /\ UNCHANGED store
    /\ LET job == JobFindById(application.job) IN
       reqs' = [reqs EXCEPT ![r] =
           IF job = NoJob
           THEN Responded("createChatForApplication", 0, "Job not found for application", "", 0)
           ELSE [Idle EXCEPT !.op = "createChatForApplication", !.pc = "ChatFindOne",
                             !.actor = application.user, !.applicationId = application.id,
                             !.jobId = job.id, !.company = job.company]]

\* createChat: await Chat.findOne({applicationId}); an existing chat ends it.
createChat_ChatFindOne(r) ==
    /\ reqs[r].op = "createChatForApplication" /\ reqs[r].pc = "ChatFindOne"
    /\ Resume
    /\ UNCHANGED store
    /\ LET existingChat == ChatFindOneByApplicationId(reqs[r].applicationId) IN
       reqs' = [reqs EXCEPT ![r] =
           IF existingChat # NoChat
           THEN Responded("createChatForApplication", 0, "", "", reqs[r].applicationId)
           ELSE [@ EXCEPT !.pc = "chatSave"]]

\* createChat: await chat.save(): the insert, or the E11000 of the unique
\* index on applicationId, which is logged and thrown to the caller's catch.
createChat_chatSave(r) ==
    /\ reqs[r].op = "createChatForApplication" /\ reqs[r].pc = "chatSave"
    /\ Resume
    /\ LET chat == NewChat(Cardinality(chats) + 1, reqs[r].applicationId, reqs[r].actor,
                           reqs[r].company, reqs[r].jobId) IN
       IF UniqueApplicationId(chat)
       THEN /\ chats' = ChatInsert(chat)
            /\ reqs' = [reqs EXCEPT ![r] =
                   Responded("createChatForApplication", 0, "", "", reqs[r].applicationId)]
       ELSE /\ UNCHANGED chats
            /\ reqs' = [reqs EXCEPT ![r] =
                   Responded("createChatForApplication", 0, "Error creating chat for application",
                             "E11000 duplicate key", reqs[r].applicationId)]
    /\ UNCHANGED <<jobs, jobCount, applications, appCount, chatFailed>>

\* ------------------------------------------------ jobController: listings
\* <<page, limit>> of a request after parseInt(...) || 1 and || 10: the
\* defaults, and the second page of pages of one.
PagingInputs == {<<1, 10>>, <<2, 1>>}

\* A query filter on the Job collection.  company and status are "none" and
\* "" when the filter has no such key.  text is the set of ids of the Job
\* documents the $text index matches for the search term, AnyText when the
\* query has no $text.
AnyText == {-1}
JobFilter(company, status, text) == [company |-> company, status |-> status, text |-> text]

JobMatches_nostatus(job, filter) ==
    /\ filter.company = "none" \/ job.company = filter.company
    /\ filter.text = AnyText \/ job.id \in filter.text
JobMatches(job, filter) ==
    /\ filter.company = "none" \/ job.company = filter.company
    /\ filter.status = "" \/ job.status = filter.status
    /\ filter.text = AnyText \/ job.id \in filter.text

\* Job.find(filter).sort(...).skip((page - 1) * limit).limit(limit): the
\* matching documents, newest first (ids are given out in insertion order),
\* cut to the page.
JobFind(filter, page, limit) ==
    LET found == {j \in jobs : JobMatches(j, filter)}
        rank(j) == Cardinality({k \in found : k.id >= j.id})
    IN {j \in found : rank(j) > (page - 1) * limit /\ rank(j) <= page * limit}

\* A list handler between its countDocuments and its find.  Of the response
\* only the documents are part of the model, not the totals.
Listing(op, actor, filter, page, limit) ==
    [Idle EXCEPT !.op = op, !.pc = "find", !.actor = actor, !.filter = filter,
                 !.page = page, !.limit = limit]

\* getJobs: the filter {status: 'active'} with the query's company when it
\* has one (of the optional keys only company is a field of the model's Job),
\* then await Job.countDocuments(filter).
getJobs_countDocuments(r, company, page, limit) ==
    /\ Free(r) /\ Receive
    /\ UNCHANGED store
    /\ LET filter == JobFilter(company, "active", AnyText) IN
       reqs' = [reqs EXCEPT ![r] =
                   Listing("getJobs", "none", filter, page, limit)]

\* searchJobs: 400 without a search term, else the query
\* {$text: {$search: q}, status: 'active'} and await Job.countDocuments(query).
searchJobs_countDocuments(r, q, text, page, limit) ==
    /\ Free(r) /\ Receive
    /\ UNCHANGED store
    /\ LET query == JobFilter("none", "active", text) IN
       reqs' = [reqs EXCEPT ![r] =
           IF q = "" THEN Responded("searchJobs", 400, "Search term is required", "", 0)
           ELSE Listing("searchJobs", "none", query, page, limit)]

\* getCompanyJobs: the filter {company: req.company.id} with the query's
\* status when it is one of the three, then await Job.countDocuments(filter).
getCompanyJobs_countDocuments(r, c, status, page, limit) ==
    /\ Free(r) /\ Receive
    /\ UNCHANGED store
    /\ LET filter == JobFilter(c, IF status \in JobStatuses THEN status ELSE "", AnyText) IN
       reqs' = [reqs EXCEPT ![r] =
                   Listing("getCompanyJobs", c, filter, page, limit)]

\* await Job.find(filter)..., then res.json({jobs, currentPage, totalPages,
\* totalJobs}); the same for the three list handlers.
jobs_find(r) ==
    /\ reqs[r].op \in {"getJobs", "searchJobs", "getCompanyJobs"} /\ reqs[r].pc = "find"
    /\ Resume
    /\ UNCHANGED store
    /\ reqs' = [reqs EXCEPT ![r] =
           [Responded(reqs[r].op, 200, "", "", 0) EXCEPT
               !.body = JobFind(reqs[r].filter, reqs[r].page, reqs[r].limit)]]

\* ------------------------------------- applicationController: the reads
\* A query filter on the Application collection: {job: jobId} with the
\* query's status when it is one of the five ("" otherwise).
ApplicationFilter(jobId, status) ==
    [job |-> jobId, status |-> IF status \in ApplicationStatuses THEN status ELSE ""]

ApplicationMatches(a, filter) ==
    /\ a.job = filter.job
    /\ filter.status = "" \/ a.status = filter.status

\* Application.find(filter).sort({appliedAt: -1}).skip(skip).limit(limit)
ApplicationFind(filter, page, limit) ==
    LET found == {a \in applications : ApplicationMatches(a, filter)}
        rank(a) == Cardinality({b \in found : b.id >= a.id})
    IN {a \in found : rank(a) > (page - 1) * limit /\ rank(a) <= page * limit}

\* Job.findOne({_id: jobId, company})
JobFindOneByIdCompany(jobId, company) ==
    IF \E j \in jobs : j.id = jobId /\ j.company = company
    THEN CHOOSE j \in jobs : j.id = jobId /\ j.company = company ELSE NoJob

\* getJobApplications: await Job.findOne({_id: jobId, company: req.company.id}),
\* then the 404 and the comparison of job.company with the requester.
getJobApplications_JobFindOne(r, c, jobId, status, page, limit) ==
    /\ Free(r) /\ Receive
    /\ UNCHANGED store
    /\ LET job == JobFindOneByIdCompany(jobId, c) IN
       reqs' = [reqs EXCEPT ![r] =
           IF job = NoJob
           THEN Responded("getJobApplications", 404, "Job not found or not authorized.", "", 0)
           ELSE IF job.company # c
                THEN Responded("getJobApplications", 403,
                               "Not authorized to view applications for this job", "", 0)
           ELSE [Idle EXCEPT !.op = "getJobApplications", !.pc = "countDocuments",
                             !.actor = c, !.jobId = jobId,
                             !.filter = ApplicationFilter(jobId, status),
                             !.page = page, !.limit = limit]]

\* await Application.countDocuments(filter)
getJobApplications_countDocuments(r) ==
    /\ reqs[r].op = "getJobApplications" /\ reqs[r].pc = "countDocuments"
    /\ Resume
    /\ UNCHANGED store
    /\ reqs' = [reqs EXCEPT ![r] = [@ EXCEPT !.pc = "find"]]

\* await Application.find(filter)..., then the 200 with the documents.
getJobApplications_find(r) ==
    /\ reqs[r].op = "getJobApplications" /\ reqs[r].pc = "find"
    /\ Resume
    /\ UNCHANGED store
    /\ reqs' = [reqs EXCEPT ![r] =
           [Responded("getJobApplications", 200, "", "", 0) EXCEPT
               !.body = ApplicationFind(reqs[r].filter, reqs[r].page, reqs[r].limit)]]

\* getApplicationById: await Application.findById(id); a user's permission is
\* checked on the document, a company's needs the job first.
getApplicationById_findById(r, user, company, id) ==
    /\ Free(r) /\ Receive
    /\ UNCHANGED store
    /\ LET applicationExists == ApplicationFindById(id) IN
       reqs' = [reqs EXCEPT ![r] =
           IF user = "none" /\ company = "none"
           THEN Responded("getApplicationById", 401, "Authentication required", "", 0)
           ELSE IF applicationExists = NoApplication
                THEN Responded("getApplicationById", 404, "Application not found", "", 0)
           ELSE IF company # "none"
                THEN [Idle EXCEPT !.op = "getApplicationById", !.pc = "JobFindById",
                                  !.company = company, !.applicationId = id,
                                  !.jobId = applicationExists.job]
           ELSE IF applicationExists.user # user
                THEN Responded("getApplicationById", 403,
                               "You do not have permission to view this application", "", 0)
           ELSE [Idle EXCEPT !.op = "getApplicationById", !.pc = "populate",
                             !.actor = user, !.applicationId = id]]

\* companyId !== requestingCompanyId is the company's 403; this is its
\* negation.
SameCompany_any(companyId, requestingCompanyId) == TRUE
SameCompany(companyId, requestingCompanyId) == companyId = requestingCompanyId

\* await Job.findById(applicationExists.job), then the company's permission.
getApplicationById_JobFindById(r) ==
    /\ reqs[r].op = "getApplicationById" /\ reqs[r].pc = "JobFindById"
    /\ Resume
    /\ UNCHANGED store
    /\ LET job == JobFindById(reqs[r].jobId) IN
       reqs' = [reqs EXCEPT ![r] =
           IF job = NoJob
           THEN Responded("getApplicationById", 404, "Associated job not found", "", 0)
           ELSE IF ~SameCompany(job.company, reqs[r].company)
                THEN Responded("getApplicationById", 403,
                               "You do not have permission to view this application", "", 0)
           ELSE [@ EXCEPT !.pc = "populate"]]

\* await Application.findById(id).populate(...), then res.json(application):
\* the document, or null when it is gone by now.
getApplicationById_populate(r) ==
    /\ reqs[r].op = "getApplicationById" /\ reqs[r].pc = "populate"
    /\ Resume
    /\ UNCHANGED store
    /\ reqs' = [reqs EXCEPT ![r] =
           [Responded("getApplicationById", 200, "", "", 0) EXCEPT
               !.body = {a \in applications : a.id = reqs[r].applicationId}]]

\* --------------------------------------------------------- the middleware
\* The Authorization header of a request: none, one jwt.verify throws on
\* (malformed, expired, wrong signature), or a token signed at login with the
\* payload {id, isCompany}.
NoToken == [kind |-> "missing", id |-> "none", isCompany |-> FALSE]
BadToken == [kind |-> "invalid", id |-> "none", isCompany |-> FALSE]
UserToken(u) == [kind |-> "jwt", id |-> u, isCompany |-> FALSE]
CompanyToken(c) == [kind |-> "jwt", id |-> c, isCompany |-> TRUE]
TokenInputs ==
    {NoToken, BadToken} \cup {UserToken(u) : u \in Users} \cup {CompanyToken(c) : c \in Companies}

\* What a middleware does with the request: a response (status, message), or
\* next() (status 0) with req.user and req.company as it left them.
Reject(status, message) ==
    [status |-> status, message |-> message, user |-> "none", company |-> "none"]
Pass(user, company) == [status |-> 0, message |-> "", user |-> user, company |-> company]

authCompany_anyrole(token) ==
    IF token.kind = "missing" THEN Reject(401, "Authentication required")
    ELSE IF token.kind = "invalid" THEN Reject(401, "Invalid authentication token")
    ELSE Pass("none", token.id)
authCompany(token) ==
    IF token.kind = "missing" THEN Reject(401, "Authentication required")
    ELSE IF token.kind = "invalid" THEN Reject(401, "Invalid authentication token")
    ELSE IF ~token.isCompany THEN Reject(403, "Access denied. Not a company account.")
    ELSE Pass("none", token.id)

authUser_anyrole(token) ==
    IF token.kind = "missing" THEN Reject(401, "Authentication required")
    ELSE IF token.kind = "invalid" THEN Reject(401, "Invalid authentication token")
    ELSE Pass(token.id, "none")
authUser(token) ==
    IF token.kind = "missing" THEN Reject(401, "Authentication required")
    ELSE IF token.kind = "invalid" THEN Reject(401, "Invalid authentication token")
    ELSE IF token.isCompany THEN Reject(403, "Access denied. Not a user account.")
    ELSE Pass(token.id, "none")

auth(token) ==
    IF token.kind = "missing" THEN Reject(401, "Authentication required")
    ELSE IF token.kind = "invalid" THEN Reject(401, "Invalid authentication token")
    ELSE IF token.isCompany THEN Pass("none", token.id)
    ELSE Pass(token.id, "none")

\* The middleware has answered: the route's handler is not called.
Rejected(r, middleware, a) ==
    /\ Free(r) /\ Receive
    /\ UNCHANGED store
    /\ reqs' = [reqs EXCEPT ![r] = Responded(middleware, a.status, a.message, "", 0)]

\* ----------------------------------------------------------------- routes
\* router.<method>(path, middleware, handler): the middleware, and on next()
\* the handler up to its first await.
route_createJob(r, token) ==
    LET a == authCompany(token) IN
    IF a.status # 0 THEN Rejected(r, "authCompany", a) ELSE createJob(r, a.company, TRUE, "")

route_applyForJob(r, token, jobId) ==
    LET a == authUser(token) IN
    IF a.status # 0 THEN Rejected(r, "authUser", a) ELSE applyForJob_JobFindById(r, a.user, jobId)

route_withdrawApplication(r, token, applicationId) ==
    LET a == authUser(token) IN
    IF a.status # 0 THEN Rejected(r, "authUser", a)
    ELSE withdrawApplication_findOne(r, a.user, applicationId)

route_updateApplicationStatus(r, token, applicationId, status) ==
    LET a == authCompany(token) IN
    IF a.status # 0 THEN Rejected(r, "authCompany", a)
    ELSE updateApplicationStatus_findById(r, a.company, applicationId, status)

route_getApplicationById(r, token, id) ==
    LET a == auth(token) IN
    IF a.status # 0 THEN Rejected(r, "auth", a)
    ELSE getApplicationById_findById(r, a.user, a.company, id)

\* ------------------------------------------------------ the specification
Next ==
    \/ \E r \in Reqs, u \in Users, j \in JobIdInputs : applyForJob_JobFindById(r, u, j)
    \/ \E r \in Reqs : applyForJob_ApplicationFindOne(r)
    \/ \E r \in Reqs : applyForJob_applicationSave(r)
    \/ \E r \in Reqs : applyForJob_newChatSave(r, TRUE)
    \/ \E r \in Reqs, u \in Users, a \in ApplicationIdInputs : withdrawApplication_findOne(r, u, a)
    \/ \E r \in Reqs : withdrawApplication_findByIdAndDelete(r)
    \/ \E r \in Reqs, c \in Companies, a \in ApplicationIdInputs, s \in StatusInputs :
           updateApplicationStatus_findById(r, c, a, s)
    \/ \E r \in Reqs : updateApplicationStatus_save(r)
    \/ \E r \in Reqs, c \in Companies, f \in BOOLEAN :
           \E s \in (IF f THEN JobStatusInputs ELSE {""}) : createJob(r, c, f, s)
    \/ \E r \in Reqs, c \in Companies, j \in JobIdInputs \ {0}, s \in JobStatusInputs :
           updateJob_findById(r, c, j, s, "none")
    \/ \E r \in Reqs : updateJob_findByIdAndUpdate(r)
    \/ \E r \in Reqs, c \in Companies, j \in JobIdInputs \ {0} : deleteJob_findById(r, c, j)
    \/ \E r \in Reqs : deleteJob_findByIdAndDelete(r)

Spec == Init /\ [][Next]_vars

\* The same handlers with a store that may reject the Chat insert.
ChatSaveFails == \E r \in Reqs : applyForJob_newChatSave(r, FALSE)
NextStoreFault == Next \/ ChatSaveFails
SpecStoreFault == Init /\ [][NextStoreFault]_vars

\* The chat side-channel: jobs are created, users apply, and chats are read,
\* written and (re)created for stored Applications.  The requester of a chat
\* route is a user or a company, as the auth middleware leaves it.
Requesters == {<<u, "none">> : u \in Users} \cup {<<"none", c>> : c \in Companies}

NextChat ==
    \/ \E r \in Reqs, c \in Companies : createJob(r, c, TRUE, "")
    \/ \E r \in Reqs, u \in Users, j \in JobIdInputs : applyForJob_JobFindById(r, u, j)
    \/ \E r \in Reqs : applyForJob_ApplicationFindOne(r)
    \/ \E r \in Reqs : applyForJob_applicationSave(r)
    \/ \E r \in Reqs : applyForJob_newChatSave(r, TRUE)
    \/ \E r \in Reqs, a \in applications : createChatForApplication_JobFindById(r, a)
    \/ \E r \in Reqs : createChat_ChatFindOne(r)
    \/ \E r \in Reqs : createChat_chatSave(r)
    \/ \E r \in Reqs, q \in Requesters, id \in ChatIdInputs : getChatById(r, q[1], q[2], id)
    \/ \E r \in Reqs, q \in Requesters, id \in ChatIdInputs, content \in ContentInputs :
           sendMessage_findById(r, q[1], q[2], id, content)
    \/ \E r \in Reqs : sendMessage_save(r)
    \/ \E r \in Reqs, q \in Requesters, id \in ChatIdInputs :
           markChatAsRead_findById(r, q[1], q[2], id)
    \/ \E r \in Reqs : markChatAsRead_save(r)

SpecChat == Init /\ [][NextChat]_vars

\* The job registry with its listings.
SearchTermInputs == {"", "engineer"}
CompanyFilterInputs == Companies \cup {"none"}
JobStatusFilterInputs == JobStatuses \cup {"", "archived"}

NextJobs ==
    \/ \E r \in Reqs, c \in Companies, s \in JobStatusInputs : createJob(r, c, TRUE, s)
    \/ \E r \in Reqs, c \in Companies, j \in JobIdInputs \ {0}, s \in JobStatusInputs :
           updateJob_findById(r, c, j, s, "none")
    \/ \E r \in Reqs : updateJob_findByIdAndUpdate(r)
    \/ \E r \in Reqs, c \in CompanyFilterInputs, pg \in PagingInputs :
           getJobs_countDocuments(r, c, pg[1], pg[2])
    \/ \E r \in Reqs, q \in SearchTermInputs, pg \in PagingInputs :
           \E text \in (IF q = "" THEN {{}} ELSE SUBSET (1..jobCount)) :
               searchJobs_countDocuments(r, q, text, pg[1], pg[2])
    \/ \E r \in Reqs, c \in Companies, s \in JobStatusFilterInputs, pg \in PagingInputs :
           getCompanyJobs_countDocuments(r, c, s, pg[1], pg[2])
    \/ \E r \in Reqs : jobs_find(r)

SpecJobs == Init /\ [][NextJobs]_vars

\* The writes of the job registry, with update bodies that carry a company.
BodyCompanyInputs == Companies \cup {"none"}

NextJobWrites ==
    \/ \E r \in Reqs, c \in Companies, f \in BOOLEAN :
           \E s \in (IF f THEN JobStatusInputs ELSE {""}) : createJob(r, c, f, s)
    \/ \E r \in Reqs, c \in Companies, j \in JobIdInputs \ {0}, s \in JobStatusInputs,
          x \in BodyCompanyInputs : updateJob_findById(r, c, j, s, x)
    \/ \E r \in Reqs : updateJob_findByIdAndUpdate(r)
    \/ \E r \in Reqs, c \in Companies, j \in JobIdInputs \ {0} : deleteJob_findById(r, c, j)
    \/ \E r \in Reqs : deleteJob_findByIdAndDelete(r)

SpecJobWrites == Init /\ [][NextJobWrites]_vars

\* The application routes behind their middleware: every request carries a
\* credential.  A status route's body names a status of the enum or not.
RouteStatusInputs == {"reviewed", "interviewing", "hired"}
NextRoutes ==
    \/ \E r \in Reqs, t \in TokenInputs : route_createJob(r, t)
    \/ \E r \in Reqs, t \in TokenInputs, j \in JobIdInputs : route_applyForJob(r, t, j)
    \/ \E r \in Reqs : applyForJob_ApplicationFindOne(r)
    \/ \E r \in Reqs : applyForJob_applicationSave(r)
    \/ \E r \in Reqs : applyForJob_newChatSave(r, TRUE)
    \/ \E r \in Reqs, t \in TokenInputs, a \in ApplicationIdInputs :
           route_withdrawApplication(r, t, a)
    \/ \E r \in Reqs : withdrawApplication_findByIdAndDelete(r)
    \/ \E r \in Reqs, t \in TokenInputs, a \in ApplicationIdInputs, s \in RouteStatusInputs :
           route_updateApplicationStatus(r, t, a, s)
    \/ \E r \in Reqs : updateApplicationStatus_save(r)
    \/ \E r \in Reqs, t \in TokenInputs, a \in ApplicationIdInputs :
           route_getApplicationById(r, t, a)
    \/ \E r \in Reqs : getApplicationById_JobFindById(r)
    \/ \E r \in Reqs : getApplicationById_populate(r)

SpecRoutes == Init /\ [][NextRoutes]_vars

\* A company's view of the applications for its jobs.
NextJobApplications ==
    \/ \E r \in Reqs, c \in Companies : createJob(r, c, TRUE, "")
    \/ \E r \in Reqs, u \in Users, j \in JobIdInputs \ {0} : applyForJob_JobFindById(r, u, j)
    \/ \E r \in Reqs : applyForJob_ApplicationFindOne(r)
    \/ \E r \in Reqs : applyForJob_applicationSave(r)
    \/ \E r \in Reqs : applyForJob_newChatSave(r, TRUE)
    \/ \E r \in Reqs, c \in Companies, j \in JobIdInputs \ {0}, s \in {"", "pending"},
          pg \in PagingInputs : getJobApplications_JobFindOne(r, c, j, s, pg[1], pg[2])
    \/ \E r \in Reqs : getJobApplications_countDocuments(r)
    \/ \E r \in Reqs : getJobApplications_find(r)

SpecJobApplications == Init /\ [][NextJobApplications]_vars

\* Reading one Application while its job and its status change: jobs are
\* created and deleted, users apply and withdraw, the owning company sets the
\* status, and users and companies ask for Applications by id.
NextApplicationReads ==
    \/ \E r \in Reqs, c \in Companies : createJob(r, c, TRUE, "")
    \/ \E r \in Reqs, u \in Users, j \in JobIdInputs \ {0} : applyForJob_JobFindById(r, u, j)
    \/ \E r \in Reqs : applyForJob_ApplicationFindOne(r)
    \/ \E r \in Reqs : applyForJob_applicationSave(r)
    \/ \E r \in Reqs : applyForJob_newChatSave(r, TRUE)
    \/ \E r \in Reqs, c \in Companies, a \in ApplicationIdInputs, s \in ApplicationStatuses :
           updateApplicationStatus_findById(r, c, a, s)
    \/ \E r \in Reqs : updateApplicationStatus_save(r)
    \/ \E r \in Reqs, u \in Users, a \in ApplicationIdInputs : withdrawApplication_findOne(r, u, a)
    \/ \E r \in Reqs : withdrawApplication_findByIdAndDelete(r)
    \/ \E r \in Reqs, c \in Companies, j \in JobIdInputs \ {0} : deleteJob_findById(r, c, j)
    \/ \E r \in Reqs : deleteJob_findByIdAndDelete(r)
    \/ \E r \in Reqs, q \in Requesters, a \in ApplicationIdInputs :
           getApplicationById_findById(r, q[1], q[2], a)
    \/ \E r \in Reqs : getApplicationById_JobFindById(r)
    \/ \E r \in Reqs : getApplicationById_populate(r)

SpecApplicationReads == Init /\ [][NextApplicationReads]_vars

\* The references between the collections under every write to them: jobs
\* are created, updated (with bodies that carry a company) and deleted, users
\* apply and withdraw, the company sets a status, and chats are created again
\* and written to.
NextReferences ==
    \/ \E r \in Reqs, c \in Companies : createJob(r, c, TRUE, "")
    \/ \E r \in Reqs, c \in Companies, j \in JobIdInputs \ {0}, s \in {"", "closed"},
          x \in BodyCompanyInputs : updateJob_findById(r, c, j, s, x)
    \/ \E r \in Reqs : updateJob_findByIdAndUpdate(r)
    \/ \E r \in Reqs, c \in Companies, j \in JobIdInputs \ {0} : deleteJob_findById(r, c, j)
    \/ \E r \in Reqs : deleteJob_findByIdAndDelete(r)
    \/ \E r \in Reqs, u \in Users, j \in JobIdInputs \ {0} : applyForJob_JobFindById(r, u, j)
    \/ \E r \in Reqs : applyForJob_ApplicationFindOne(r)
    \/ \E r \in Reqs : applyForJob_applicationSave(r)
    \/ \E r \in Reqs : applyForJob_newChatSave(r, TRUE)
    \/ \E r \in Reqs, u \in Users, a \in ApplicationIdInputs : withdrawApplication_findOne(r, u, a)
    \/ \E r \in Reqs : withdrawApplication_findByIdAndDelete(r)
    \/ \E r \in Reqs, c \in Companies, a \in ApplicationIdInputs :
           updateApplicationStatus_findById(r, c, a, "reviewed")
    \/ \E r \in Reqs : updateApplicationStatus_save(r)
    \/ \E r \in Reqs, a \in applications : createChatForApplication_JobFindById(r, a)
    \/ \E r \in Reqs : createChat_ChatFindOne(r)
    \/ \E r \in Reqs : createChat_chatSave(r)
    \/ \E r \in Reqs, q \in Requesters, id \in ChatIdInputs :
           sendMessage_findById(r, q[1], q[2], id, "hello")
    \/ \E r \in Reqs : sendMessage_save(r)

SpecReferences == Init /\ [][NextReferences]_vars

\* ================================================================= claims

\* C1 (invariant): in every reachable state the store holds at most one
\* Application for each (job, user) pair.
C1_AtMostOneApplicationPerJobUser ==
    \A a, b \in applications : (a.job = b.job /\ a.user = b.user) => a = b

\* Two applies for one pair raced: the unique index rejected one of them and
\* the pair has its one Application.
C1_Witness ==
    /\ \E r \in Reqs : /\ reqs[r].op = "applyForJob" /\ reqs[r].pc = "done"
                        /\ reqs[r].res.error = "E11000 duplicate key"
    /\ \E a \in applications : \A b \in applications : (a.job = b.job /\ a.user = b.user) => a = b

\* C2 (as claimed): of two applies for one (job, user) that both passed the
\* lookup, the one whose save finds no Application of the pair inserts its own
\* and goes on to its Chat, and the one whose save finds the other's
\* Application ends with the Conflict outcome, status 400 or 409.
C2_RacingApplyConflict ==
    [][\A r \in Reqs :
        applyForJob_applicationSave(r) =>
            IF \E a \in applications : a.job = reqs[r].jobId /\ a.user = reqs[r].actor
            THEN reqs'[r].pc = "done" /\ reqs'[r].res.status \in {400, 409}
            ELSE /\ reqs'[r].pc = "newChatSave"
                 /\ \E a \in applications' \ applications :
                        a.job = reqs[r].jobId /\ a.user = reqs[r].actor
      ]_vars

C3_WitnessInvalidState ==
    /\ \E r \in Reqs : /\ reqs[r].op = "withdrawApplication" /\ reqs[r].pc = "done"
                        /\ reqs[r].res.status = 400
    /\ \E a \in applications : a.status = "interviewing"

\* C4 (as claimed): no step removes an Application whose stored status, at the
\* moment of the deletion, is interviewing, rejected or accepted.
C4_DeletedOnlyWhilePendingOrReviewed ==
    [][\A a \in applications :
        (\A b \in applications' : b.id # a.id) => a.status \in {"pending", "reviewed"}
      ]_vars

\* C5 (as claimed): updateStatus by a Company on an existing Application goes
\* on to write the status if and only if the Application's job belongs to the
\* actor and the new status is one of the five; otherwise it answers 403 (job
\* not the actor's) or 400 (status not in the enum) and changes nothing.
C5_UpdateStatusOutcome ==
    [][\A r \in Reqs, c \in Companies, id \in ApplicationIdInputs, s \in StatusInputs :
        (updateApplicationStatus_findById(r, c, id, s) /\ \E a \in applications : a.id = id) =>
            LET owns == \E a \in applications, j \in jobs :
                            a.id = id /\ j.id = a.job /\ j.company = c
                valid == s \in {"pending", "reviewed", "interviewing", "rejected", "accepted"}
            IN
            /\ applications' = applications
            /\ (owns /\ valid) <=> reqs'[r].pc = "save"
            /\ (owns /\ ~valid) => reqs'[r].res.status = 400
            /\ (~owns /\ valid) => reqs'[r].res.status = 403
            /\ (~owns /\ ~valid) => reqs'[r].res.status \in {400, 403}
      ]_vars

\* C6 (action property): whenever an apply answers 201, in the state right
\* after that step exactly one Chat has the new Application's id as its
\* applicationId, and it holds exactly one message, unread, sent by the
\* company of the job.
C6_ChatAfterApply ==
    [][\A r \in Reqs :
        (/\ reqs'[r] # reqs[r]
         /\ reqs'[r].op = "applyForJob"
         /\ reqs'[r].res.status = 201) =>
            LET new == {c \in chats' : c.applicationId = reqs'[r].applicationId} IN
            /\ reqs'[r].applicationId = reqs[r].applicationId
            /\ Cardinality(new) = 1
            /\ \A c \in new :
                  /\ Len(c.messages) = 1
                  /\ c.messages[1].isRead = FALSE
                  /\ c.messages[1].sender \in Companies
                  /\ c.messages[1].sender = reqs[r].company
                  /\ \A j \in jobs' : j.id = reqs[r].jobId => c.messages[1].sender = j.company
      ]_vars

\* An apply has answered 201 and its Chat is in the store.
C6_Witness ==
    \E r \in Reqs :
        /\ reqs[r].op = "applyForJob" /\ reqs[r].pc = "done" /\ reqs[r].res.status = 201
        /\ \E c \in chats : c.applicationId = reqs[r].applicationId /\ Len(c.messages) = 1
        /\ \E a \in applications : a.id = reqs[r].applicationId

\* C7 (as claimed): in every state every Application in the store has a Chat
\* whose applicationId refers to it.
C7_EveryApplicationHasChat ==
    \A a \in applications : \E c \in chats : c.applicationId = a.id

\* C7 (amended, invariant): every Application in the store has a Chat whose
\* applicationId refers to it, except while the apply that saved it has not
\* yet done its Chat save, and except when that Chat save failed.
C7_ApplicationHasChatAfterChatSave ==
    \A a \in applications :
        \/ \E c \in chats : c.applicationId = a.id
        \/ \E r \in Reqs : /\ reqs[r].op = "applyForJob" /\ reqs[r].pc = "newChatSave"
                            /\ reqs[r].applicationId = a.id
        \/ a.id \in chatFailed

\* An apply has answered 201 for an Application that is in the store with its
\* Chat, while a second apply has saved its Application and not yet its Chat.
C7_Witness ==
    /\ \E a \in applications, c \in chats, r \in Reqs :
          /\ c.applicationId = a.id
          /\ reqs[r].op = "applyForJob" /\ reqs[r].res.status = 201
          /\ reqs[r].applicationId = a.id
    /\ \E a \in applications, r \in Reqs :
          /\ \A c \in chats : c.applicationId # a.id
          /\ reqs[r].op = "applyForJob" /\ reqs[r].pc = "newChatSave"
          /\ reqs[r].applicationId = a.id

\* C8 (action property): apply saves its Application with status pending, and
\* the step in which its Chat save fails answers 500 and leaves the
\* Application collection exactly as it was: the Application saved before is
\* not removed and its status is not touched.
C8_NoRollback ==
    [][\A r \in Reqs :
        /\ applyForJob_applicationSave(r) =>
              \A a \in applications' \ applications :
                  a.status = "pending" /\ a.id = reqs'[r].applicationId
        /\ applyForJob_newChatSave(r, FALSE) =>
              /\ reqs'[r].pc = "done" /\ reqs'[r].res.status = 500
              /\ applications' = applications
              /\ chats' = chats
      ]_vars

\* An apply has answered 500 because its Chat save failed, and the
\* Application it had saved is in the store, pending, without a Chat.
C8_Witness ==
    /\ \E r \in Reqs : /\ reqs[r].op = "applyForJob" /\ reqs[r].pc = "done"
                        /\ reqs[r].res.status = 500
                        /\ reqs[r].res.error = "Chat save failed"
    /\ \E a \in applications :
          /\ a.id \in chatFailed /\ a.status = "pending"
          /\ \A c \in chats : c.applicationId # a.id

\* C9 (action property): an apply, by any User, for a job that is in the store
\* with status closed or draft answers 400 in its first step and is over; the
\* Application and Chat collections are unchanged.
C9_InactiveJobRejected ==
    [][\A r \in Reqs, u \in Users, jobId \in JobIdInputs :
        (/\ applyForJob_JobFindById(r, u, jobId)
         /\ \E j \in jobs : j.id = jobId /\ j.status \in {"closed", "draft"}) =>
            /\ reqs'[r].pc = "done"
            /\ reqs'[r].res.status = 400
            /\ reqs'[r].res.message = "This job posting is no longer active"
            /\ applications' = applications
            /\ chats' = chats
      ]_vars

\* An apply for a draft job has been turned away; nothing was created.
C9_Witness ==
    /\ \E r \in Reqs : /\ reqs[r].op = "applyForJob" /\ reqs[r].pc = "done"
                        /\ reqs[r].res.status = 400
                        /\ reqs[r].res.message = "This job posting is no longer active"
    /\ \E j \in jobs : j.status = "draft"
    /\ applications = {} /\ chats = {}

\* The Conflict outcome of apply.
C10_IsConflict(res) ==
    res.status = 400 /\ res.message = "You have already applied for this job."

C11_MarkReadFlipsOthersOnly ==
    [][\A r \in Reqs :
        /\ \A q \in Requesters, id \in ChatIdInputs :
              (/\ markChatAsRead_findById(r, q[1], q[2], id)
               /\ \E c \in chats : c.id = id /\ (c.userId = q[1] \/ c.companyId = q[2])) =>
                  /\ chats' = chats
                  /\ reqs'[r].pc = "done" =>
                        /\ reqs'[r].res.status = 200
                        /\ \A c \in chats : c.id = id =>
                              \A i \in 1..Len(c.messages) :
                                  c.messages[i].sender # RequesterId(q[1], q[2])
                                      => c.messages[i].isRead
        /\ markChatAsRead_save(r) =>
              /\ reqs'[r].res.status = 200
              /\ \A c \in chats, d \in chats' : (c.id = reqs[r].chatId /\ d.id = c.id) =>
                    /\ Len(d.messages) = Len(c.messages)
                    /\ \A i \in 1..Len(d.messages) :
                          IF d.messages[i].sender # reqs[r].actor
                          THEN d.messages[i].isRead
                          ELSE d.messages[i] = c.messages[i]
      ]_vars

\* C12 (action property): the documents getJobs and searchJobs return are
\* Job documents of the store whose status is active, whatever the query; the
\* documents getCompanyJobs returns for a Company are jobs of that company, of
\* any status, never a job of another company, and without a status in the
\* query and with the default paging they are all jobs of that company.
C12_ListingsByStatusAndOwner ==
    [][\A r \in Reqs :
        jobs_find(r) =>
            /\ reqs'[r].pc = "done" /\ reqs'[r].res.status = 200
            /\ reqs'[r].body \subseteq jobs
            /\ reqs[r].op \in {"getJobs", "searchJobs"} =>
                  \A j \in reqs'[r].body : j.status = "active"
            /\ reqs[r].op = "getCompanyJobs" =>
                  /\ reqs[r].actor \in Companies
                  /\ \A j \in reqs'[r].body : j.company = reqs[r].actor
                  /\ (reqs[r].filter.status = "" /\ reqs[r].page = 1 /\ reqs[r].limit = 10) =>
                        reqs'[r].body = {j \in jobs : j.company = reqs[r].actor}
      ]_vars

\* getCompanyJobs has returned a draft job of the company next to an active
\* one, and getJobs has returned jobs while the store holds a job that is not
\* active.
C12_Witness ==
    /\ \E r \in Reqs :
          /\ reqs[r].op = "getCompanyJobs" /\ reqs[r].pc = "done"
          /\ \E j, k \in reqs[r].body : j.status = "draft" /\ k.status = "active"
    /\ \E r \in Reqs :
          /\ reqs[r].op = "getJobs" /\ reqs[r].pc = "done" /\ reqs[r].body # {}
          /\ \E j \in jobs : j.status # "active" /\ j \notin reqs[r].body

C14_LifecycleByRole ==
    [][/\ \A b \in applications' :
             (\A a \in applications : a.id # b.id) =>
                 \E r \in Reqs :
                     /\ applyForJob_applicationSave(r)
                     /\ reqs[r].actor \in Users /\ b.user = reqs[r].actor
       /\ \A a \in applications, b \in applications' :
             (a.id = b.id /\ a.status # b.status) =>
                 \E r \in Reqs :
                     /\ updateApplicationStatus_save(r)
                     /\ reqs[r].applicationId = a.id
                     /\ reqs[r].actor \in Companies /\ reqs[r].actor = a.company
                     /\ \A j \in jobs : j.id = a.job => j.company = reqs[r].actor
       /\ \A a \in applications :
             (\A b \in applications' : b.id # a.id) =>
                 \E r \in Reqs :
                     /\ withdrawApplication_findByIdAndDelete(r)
                     /\ reqs[r].applicationId = a.id
                     /\ reqs[r].actor \in Users /\ reqs[r].actor = a.user
       /\ \A r \in Reqs : (Free(r) /\ received' # received) =>
             /\ \A u \in Users, id \in ApplicationIdInputs, s \in RouteStatusInputs :
                   route_updateApplicationStatus(r, UserToken(u), id, s) =>
                       /\ reqs'[r].pc = "done" /\ reqs'[r].res.status = 403
                       /\ applications' = applications
             /\ \A c \in Companies, j \in JobIdInputs :
                   route_applyForJob(r, CompanyToken(c), j) =>
                       /\ reqs'[r].pc = "done" /\ reqs'[r].res.status = 403
                       /\ applications' = applications
             /\ \A c \in Companies, id \in ApplicationIdInputs :
                   route_withdrawApplication(r, CompanyToken(c), id) =>
                       /\ reqs'[r].pc = "done" /\ reqs'[r].res.status = 403
                       /\ applications' = applications
      ]_vars

\* The owning company has set an Application's status, and a request to the
\* status route with another role's token was turned away by the middleware.
C14_Witness ==
    /\ \E r \in Reqs : /\ reqs[r].op = "updateApplicationStatus" /\ reqs[r].pc = "done"
                        /\ reqs[r].res.status = 200
    /\ \E r \in Reqs : /\ reqs[r].op = "authCompany" /\ reqs[r].pc = "done"
                        /\ reqs[r].res.status = 403
    /\ \E a \in applications : a.status = "reviewed" /\ a.user \in Users

\* C15 (invariant): in every reachable state at most one Chat has any given
\* applicationId, however apply and createChatForApplication interleave.
C15_AtMostOneChatPerApplication ==
    \A c, d \in chats : c.applicationId = d.applicationId => c = d

\* createChat raced with the apply that saved the Application: both found no
\* Chat, the unique index rejected the second insert, and the Application has
\* its one Chat.
C15_Witness ==
    /\ \E r \in Reqs : /\ reqs[r].op = "createChatForApplication" /\ reqs[r].pc = "done"
                        /\ reqs[r].res.error = "E11000 duplicate key"
                        /\ Cardinality({c \in chats : c.applicationId = reqs[r].applicationId}) = 1
    /\ \E r \in Reqs : /\ reqs[r].op = "applyForJob" /\ reqs[r].pc = "done"
                        /\ reqs[r].res.status = 201

\* C16 (action property): createJob inserts its Job with the requesting
\* company as company, and no step changes the company of a Job in the
\* store; in particular the update of an updateJob whose body carries a
\* company leaves it as it was.
C16_JobCompanyNeverChanges ==
    [][/\ \A r \in Reqs, c \in Companies, s \in JobStatusInputs :
             createJob(r, c, TRUE, s) =>
                 /\ Cardinality(jobs' \ jobs) = 1
                 /\ \A j \in jobs' \ jobs : j.company = c
       /\ \A j \in jobs, k \in jobs' : j.id = k.id => k.company = j.company
       /\ \A r \in Reqs :
             updateJob_findByIdAndUpdate(r) =>
                 /\ reqs'[r].res.status = 200
                 /\ \A j \in jobs : \E k \in jobs' : k.id = j.id /\ k.company = j.company
      ]_vars

\* An updateJob whose body carried another company and a status has answered
\* 200; the job has the new status and its creator as company.
C16_Witness ==
    /\ \E r \in Reqs : /\ reqs[r].op = "updateJob" /\ reqs[r].pc = "done"
                        /\ reqs[r].res.status = 200
                        /\ reqs[r].bodyCompany = "c2"
    /\ received = 2
    /\ jobs = {[id |-> 1, company |-> "c1", status |-> "closed"]}

\* The middleware turned the request in slot r away with this status: the
\* response is the middleware's, no handler ran and the store is unchanged.
C17_TurnedAway(r, middleware, status) ==
    /\ reqs'[r].pc = "done" /\ reqs'[r].op = middleware
    /\ reqs'[r].res.status = status
    /\ store' = store

\* C17 (action property), for every request that arrives (it takes a free
\* slot and is counted) and is answered by a middleware or taken up by a
\* handler: on a User-only route a company's valid token is turned away with
\* 403 and on a Company-only route a user's; on every protected route a
\* missing credential and an invalid one are turned away with 401; a
\* turned-away request runs no handler and leaves the store unchanged.  A
\* valid token of the route's role reaches the handler, which runs for the
\* token's id; the Either route lets both roles through, with exactly one of
\* req.user and req.company set.
C17_IdentityGatesRoutes ==
    [][\A r \in Reqs : (Free(r) /\ received' # received) =>
        /\ reqs'[r].op \in {"authUser", "applyForJob"} =>
              \A t \in TokenInputs, j \in JobIdInputs :
                  route_applyForJob(r, t, j) =>
                     /\ t \in {NoToken, BadToken} => C17_TurnedAway(r, "authUser", 401)
                     /\ (t.kind = "jwt" /\ t.isCompany) => C17_TurnedAway(r, "authUser", 403)
                     /\ (t.kind = "jwt" /\ ~t.isCompany) =>
                           /\ reqs'[r].op = "applyForJob"
                           /\ reqs'[r].pc # "done" => reqs'[r].actor = t.id
        /\ reqs'[r].op \in {"authUser", "withdrawApplication"} =>
              \A t \in TokenInputs, id \in ApplicationIdInputs :
                  route_withdrawApplication(r, t, id) =>
                     /\ t \in {NoToken, BadToken} => C17_TurnedAway(r, "authUser", 401)
                     /\ (t.kind = "jwt" /\ t.isCompany) => C17_TurnedAway(r, "authUser", 403)
                     /\ (t.kind = "jwt" /\ ~t.isCompany) =>
                           /\ reqs'[r].op = "withdrawApplication"
                           /\ reqs'[r].pc # "done" => reqs'[r].actor = t.id
        /\ reqs'[r].op \in {"authCompany", "createJob"} =>
              \A t \in TokenInputs :
                  route_createJob(r, t) =>
                     /\ t \in {NoToken, BadToken} => C17_TurnedAway(r, "authCompany", 401)
                     /\ (t.kind = "jwt" /\ ~t.isCompany) => C17_TurnedAway(r, "authCompany", 403)
                     /\ (t.kind = "jwt" /\ t.isCompany) =>
                           /\ reqs'[r].op = "createJob"
                           /\ \A k \in jobs' \ jobs : k.company = t.id
        /\ reqs'[r].op \in {"authCompany", "updateApplicationStatus"} =>
              \A t \in TokenInputs, id \in ApplicationIdInputs, s \in RouteStatusInputs :
                  route_updateApplicationStatus(r, t, id, s) =>
                     /\ t \in {NoToken, BadToken} => C17_TurnedAway(r, "authCompany", 401)
                     /\ (t.kind = "jwt" /\ ~t.isCompany) => C17_TurnedAway(r, "authCompany", 403)
                     /\ (t.kind = "jwt" /\ t.isCompany) =>
                           /\ reqs'[r].op = "updateApplicationStatus"
                           /\ reqs'[r].pc # "done" => reqs'[r].actor = t.id
        /\ reqs'[r].op \in {"auth", "getApplicationById"} =>
              \A t \in TokenInputs, id \in ApplicationIdInputs :
                  route_getApplicationById(r, t, id) =>
                     /\ t \in {NoToken, BadToken} => C17_TurnedAway(r, "auth", 401)
                     /\ t.kind = "jwt" =>
                           /\ reqs'[r].op = "getApplicationById"
                           /\ reqs'[r].res.status # 401
                           /\ (auth(t).user = "none") # (auth(t).company = "none")
                           /\ t.id \in {auth(t).user, auth(t).company}
        /\ reqs'[r].op \in {"authUser", "authCompany", "auth"} =>
              /\ reqs'[r].res.status \in {401, 403}
              /\ reqs'[r].res.status = 401 =>
                    reqs'[r].res.message \in {"Authentication required",
                                              "Invalid authentication token"}
      ]_vars

\* A company's token was turned away from a User-only route with 403, and
\* the Either route has answered a company's request for an Application of
\* its job.
C17_Witness ==
    /\ \E r \in Reqs : /\ reqs[r].op = "authUser" /\ reqs[r].pc = "done"
                        /\ reqs[r].res.status = 403
    /\ \E r \in Reqs : /\ reqs[r].op = "getApplicationById" /\ reqs[r].pc = "done"
                        /\ reqs[r].res.status = 200 /\ reqs[r].body # {}

\* C18 (as claimed): getChat, sendMessage (with content) and markRead on a
\* chat in the store, requested by a user who is not the chat's user or by a
\* company that is not the chat's company, answer 403 in their first step and
\* leave the Chat collection unchanged.
C18_NonParticipantForbidden ==
    [][\A r \in Reqs, q \in Requesters, id \in ChatIdInputs :
        (/\ \/ getChatById(r, q[1], q[2], id)
            \/ sendMessage_findById(r, q[1], q[2], id, "hello")
            \/ markChatAsRead_findById(r, q[1], q[2], id)
         /\ \E c \in chats : c.id = id /\ c.userId # q[1] /\ c.companyId # q[2]) =>
            /\ reqs'[r].pc = "done"
            /\ reqs'[r].res.status = 403
            /\ chats' = chats
      ]_vars

\* C19 (action property): a sendMessage without content answers 400 in its
\* first step and the Chat collection is unchanged; one by a participant with
\* content goes on to the save.  The save answers 201 and the chat's sequence
\* afterwards is the sequence before with one message appended, whose sender
\* is the requester, whose content is the given one and whose isRead is
\* false; every other chat is unchanged.  A sendMessage answers 201 in no
\* other way.
C19_SendMessageAppendsOne ==
    [][\A r \in Reqs :
        /\ (Free(r) /\ received' # received /\ reqs'[r].op = "sendMessage") =>
              \A q \in Requesters, id \in ChatIdInputs :
                 /\ sendMessage_findById(r, q[1], q[2], id, "") =>
                       /\ reqs'[r].pc = "done" /\ reqs'[r].res.status = 400
                       /\ chats' = chats
                 /\ (/\ sendMessage_findById(r, q[1], q[2], id, "hello")
                     /\ \E c \in chats : c.id = id /\ (c.userId = q[1] \/ c.companyId = q[2])) =>
                       /\ reqs'[r].pc = "save" /\ chats' = chats
                       /\ reqs'[r].actor \in {q[1], q[2]} \ {"none"}
                       /\ reqs'[r].content = "hello"
        /\ sendMessage_save(r) =>
              /\ reqs'[r].pc = "done" /\ reqs'[r].res.status = 201
              /\ \A c \in chats :
                    IF c.id = reqs[r].chatId
                    THEN \E d \in chats' :
                            /\ d.id = c.id
                            /\ Len(d.messages) = Len(c.messages) + 1
                            /\ SubSeq(d.messages, 1, Len(c.messages)) = c.messages
                            /\ d.messages[Len(d.messages)] =
                                  [sender |-> reqs[r].actor, content |-> reqs[r].content,
                                   isRead |-> FALSE]
                            /\ reqs[r].content # ""
                            /\ reqs[r].actor \in {c.userId, c.companyId}
                    ELSE c \in chats'
              /\ Cardinality(chats') = Cardinality(chats)
        /\ (/\ reqs'[r] # reqs[r]
            /\ reqs'[r].op = "sendMessage"
            /\ reqs'[r].res.status = 201) => sendMessage_save(r)
      ]_vars

\* The applicant's sendMessage has answered 201: the chat holds the company's
\* first message as it was and the applicant's message after it, unread.
C19_Witness ==
    /\ \E r \in Reqs : /\ reqs[r].op = "sendMessage" /\ reqs[r].pc = "done"
                        /\ reqs[r].res.status = 201
    /\ \E c \in chats :
          /\ Len(c.messages) = 2
          /\ c.messages[1] = [sender |-> c.companyId, content |-> "Thank you for applying",
                              isRead |-> FALSE]
          /\ c.messages[2] = [sender |-> c.userId, content |-> "hello", isRead |-> FALSE]

\* C20 (as claimed): getJobApplications by a Company for a job in the store
\* that belongs to another Company answers 403; it goes on to read the
\* applications only when the job is in the store with the requester as its
\* company, and every Application it returns has that job as its job.
C20_ListForJobForbidden ==
    [][\A r \in Reqs :
        /\ \A c \in Companies, j \in JobIdInputs \ {0}, s \in {"", "pending"},
              pg \in PagingInputs :
              getJobApplications_JobFindOne(r, c, j, s, pg[1], pg[2]) =>
                 /\ (\E job \in jobs : job.id = j /\ job.company # c) =>
                        (reqs'[r].pc = "done" /\ reqs'[r].res.status = 403)
                 /\ reqs'[r].pc # "done" => \E job \in jobs : job.id = j /\ job.company = c
        /\ getJobApplications_find(r) =>
              /\ reqs'[r].res.status = 200
              /\ \A a \in reqs'[r].body : a \in applications /\ a.job = reqs[r].jobId
      ]_vars

\* C21 (as claimed): getById of an Application in the store answers 403 to a
\* User who is not its applicant, in the first step, and to a Company that
\* does not own the Application's job, in the step that looks the job up.
C21_GetByIdForbiddenToOthers ==
    [][\A r \in Reqs :
        /\ (Free(r) /\ received' # received /\ reqs'[r].op = "getApplicationById") =>
              \A u \in Users, id \in ApplicationIdInputs :
                  (/\ getApplicationById_findById(r, u, "none", id)
                   /\ \E a \in applications : a.id = id /\ a.user # u) =>
                      reqs'[r].pc = "done" /\ reqs'[r].res.status = 403
        /\ (/\ getApplicationById_JobFindById(r)
            /\ ~\E j \in jobs : j.id = reqs[r].jobId /\ j.company = reqs[r].company) =>
               reqs'[r].pc = "done" /\ reqs'[r].res.status = 403
      ]_vars

\* C21 (amended, action property): getById of an Application in the store
\* answers 403, with no document, to a User who is not its applicant, and
\* goes on for the applicant; for a Company it looks the Application's job
\* up: it answers 403 when the job belongs to another company, 404 when the
\* job is gone, both with no document, and goes on for the owner.  The last
\* step answers 200 with at most the Application asked for, whose applicant
\* is the requesting User or whose job, while in the store, is the requesting
\* Company's.  No other step of getById returns a document.
C21_GetByIdOnlyToApplicantOrOwner ==
    [][\A r \in Reqs :
        /\ (Free(r) /\ received' # received /\ reqs'[r].op = "getApplicationById") =>
              \A q \in Requesters, id \in ApplicationIdInputs :
                  (/\ getApplicationById_findById(r, q[1], q[2], id)
                   /\ \E a \in applications : a.id = id) =>
                      LET a == CHOOSE a \in applications : a.id = id IN
                      /\ reqs'[r].body = {}
                      /\ (q[1] # "none" /\ a.user # q[1]) =>
                             reqs'[r].pc = "done" /\ reqs'[r].res.status = 403
                      /\ (q[1] # "none" /\ a.user = q[1]) =>
                             reqs'[r].pc = "populate" /\ reqs'[r].actor = a.user
                      /\ q[2] # "none" =>
                             /\ reqs'[r].pc = "JobFindById"
                             /\ reqs'[r].company = q[2] /\ reqs'[r].jobId = a.job
        /\ getApplicationById_JobFindById(r) =>
              LET linked == {j \in jobs : j.id = reqs[r].jobId} IN
              /\ reqs'[r].body = {}
              /\ linked = {} => (reqs'[r].pc = "done" /\ reqs'[r].res.status = 404)
              /\ (\E j \in linked : j.company # reqs[r].company) =>
                     (reqs'[r].pc = "done" /\ reqs'[r].res.status = 403)
              /\ (\E j \in linked : j.company = reqs[r].company) =>
                     (reqs'[r].pc = "populate" /\ reqs'[r].company = reqs[r].company)
        /\ getApplicationById_populate(r) =>
              /\ reqs'[r].res.status = 200
              /\ \A a \in reqs'[r].body :
                    /\ a \in applications /\ a.id = reqs[r].applicationId
                    /\ \/ reqs[r].actor \in Users /\ a.user = reqs[r].actor
                       \/ /\ reqs[r].company \in Companies /\ a.company = reqs[r].company
                          /\ \A j \in jobs : j.id = a.job => j.company = reqs[r].company
        /\ (/\ reqs'[r] # reqs[r]
            /\ reqs'[r].op = "getApplicationById"
            /\ reqs'[r].body # {}) => getApplicationById_populate(r)
      ]_vars

\* A company asked for an Application whose job had been deleted and was
\* answered 404 without a document; the Application is in the store.
C21_Witness ==
    /\ \E r \in Reqs : /\ reqs[r].op = "getApplicationById" /\ reqs[r].pc = "done"
                        /\ reqs[r].res.status = 404
                        /\ reqs[r].res.message = "Associated job not found"
                        /\ reqs[r].body = {}
    /\ \E a \in applications : \A j \in jobs : j.id # a.job

\* C22 (action property): the delete of deleteJob answers 200, removes the
\* Job of its id and no other Job, and leaves the Application and Chat
\* collections as they were, the documents that refer to the job included;
\* the delete of withdraw answers 200, removes the Application of its id and
\* no other, and leaves the Job and Chat collections as they were, the
\* Application's Chat included.  No step that removes a Job or an Application
\* changes a Chat, and no step that removes a Job changes an Application.
C22_DeletionsNeverCascade ==
    [][/\ \A r \in Reqs :
             /\ deleteJob_findByIdAndDelete(r) =>
                   /\ reqs'[r].res.status = 200
                   /\ jobs' = {j \in jobs : j.id # reqs[r].jobId}
                   /\ applications' = applications
                   /\ chats' = chats
             /\ withdrawApplication_findByIdAndDelete(r) =>
                   /\ reqs'[r].res.status = 200
                   /\ applications' = {a \in applications : a.id # reqs[r].applicationId}
                   /\ jobs' = jobs
                   /\ chats' = chats
       /\ (\E j \in jobs : j \notin jobs') => (applications' = applications /\ chats' = chats)
       /\ (\E a \in applications : \A b \in applications' : b.id # a.id) => chats' = chats
      ]_vars

\* A deleteJob has answered 200 and the job is gone, while the Application
\* for that job and the Application's Chat are in the store as apply saved
\* them.
C22_Witness ==
    /\ \E r \in Reqs : /\ reqs[r].op = "deleteJob" /\ reqs[r].pc = "done"
                        /\ reqs[r].res.status = 200
    /\ jobs = {} /\ jobCount = 1
    /\ \E a \in applications, c \in chats :
          /\ a.job = 1 /\ a.status = "pending"
          /\ c.applicationId = a.id /\ c.jobId = 1 /\ Len(c.messages) = 1

C24_Response(slot) == [res |-> slot.res, body |-> slot.body]

\* C24 (action property): whenever withdraw is asked by a User for the id of
\* an Application in the store that is another user's, its lookup step
\* answers 404 "Application not found" and leaves the store unchanged, and
\* that response is, status and body, the response withdraw gives the same
\* User from the same state for any id no Application has.
C24_WithdrawHidesExistence ==
    [][\A r \in Reqs :
        (Free(r) /\ received' # received /\ reqs'[r].op = "withdrawApplication") =>
            \A u \in Users, other \in ApplicationIdInputs :
                (/\ \E a \in applications : a.id = other /\ a.user # u
                 /\ withdrawApplication_findOne(r, u, other)) =>
                    /\ reqs'[r].pc = "done"
                    /\ reqs'[r].res.status = 404
                    /\ reqs'[r].res.message = "Application not found"
                    /\ store' = store
                    /\ \A none \in ApplicationIdInputs :
                          (\A a \in applications : a.id # none) =>
                              /\ withdrawApplication_lookup(u, none).pc = "done"
                              /\ C24_Response(reqs'[r]) =
                                    C24_Response(withdrawApplication_lookup(u, none))
      ]_vars

\* After a job was posted and u1's apply for it was answered, the third
\* request, a withdraw of that Application by u2, has been answered 404; the
\* Application is in the store.
C24_Witness ==
    /\ received = 3 /\ jobCount = 1 /\ appCount = 1
    /\ reqs[2] = Idle
    /\ reqs[1].op = "withdrawApplication" /\ reqs[1].pc = "done"
    /\ reqs[1].res.status = 404
    /\ reqs[1].applicationId = 1 /\ reqs[1].actor = "u2"
    /\ \E a \in applications : a.id = 1 /\ a.user = "u1"
    /\ \E c \in chats : c.applicationId = 1

\* C25 (action property): an updateStatus by the Company that owns the job of
\* an Application in the store, with a status of the enum, goes on to the
\* save whatever the Application's status is.  The save, when the Application
\* is still in the store, answers 200, and when no other update has changed
\* the status since the handler read it the stored status then is the new
\* one, whatever it was before; the rest of the Application and every other
\* Application are unchanged.  No other step changes the status of an
\* Application in the store, and the last step of getById answers with the
\* Application as it is in the store, so a getById after the update with no
\* update in between returns the new status.
C25_AnyStatusToAnyStatus ==
    [][/\ \A r \in Reqs :
             /\ (Free(r) /\ received' # received /\ reqs'[r].op = "updateApplicationStatus") =>
                   \A c \in Companies, id \in ApplicationIdInputs, s \in ApplicationStatuses :
                       (/\ \E a \in applications, j \in jobs :
                              a.id = id /\ j.id = a.job /\ j.company = c
                        /\ updateApplicationStatus_findById(r, c, id, s)) =>
                           /\ reqs'[r].pc = "save" /\ reqs'[r].status = s
                           /\ reqs'[r].applicationId = id
                           /\ \E a \in applications : a.id = id /\ reqs'[r].loadedStatus = a.status
                           /\ applications' = applications
             /\ updateApplicationStatus_save(r) =>
                   IF \E a \in applications : a.id = reqs[r].applicationId
                   THEN /\ reqs'[r].res.status = 200
                        /\ reqs[r].status \in ApplicationStatuses
                        /\ \A a \in applications :
                              IF a.id = reqs[r].applicationId /\ a.status = reqs[r].loadedStatus
                              THEN [id |-> a.id, job |-> a.job, user |-> a.user,
                                    company |-> a.company, status |-> reqs[r].status]
                                       \in applications'
                              ELSE \E b \in applications' :
                                      /\ b.id = a.id /\ b.job = a.job /\ b.user = a.user
                                      /\ b.company = a.company
                                      /\ a.id # reqs[r].applicationId => b = a
                        /\ Cardinality(applications') = Cardinality(applications)
                   ELSE reqs'[r].res.status = 500 /\ applications' = applications
             /\ getApplicationById_populate(r) =>
                   /\ reqs'[r].res.status = 200
                   /\ reqs'[r].body = {a \in applications : a.id = reqs[r].applicationId}
       /\ \A a \in applications, b \in applications' :
             (a.id = b.id /\ a.status # b.status) =>
                 \E r \in Reqs : /\ updateApplicationStatus_save(r)
                                 /\ reqs[r].applicationId = a.id
                                 /\ b.status = reqs[r].status
      ]_vars

\* An update by the owning company that read the Application as accepted and
\* set it to pending has answered 200, and the stored status is pending.
C25_Witness ==
    /\ appCount = 1
    /\ \E r \in Reqs :
          /\ reqs[r].op = "updateApplicationStatus" /\ reqs[r].pc = "done"
          /\ reqs[r].res.status = 200
          /\ reqs[r].loadedStatus = "accepted" /\ reqs[r].status = "pending"
    /\ \E a \in applications : a.id = 1 /\ a.status = "pending"

C27_MessagesAppendOnly ==
    [][\A c \in chats :
        \E d \in chats' :
            /\ d.id = c.id
            /\ Len(d.messages) >= Len(c.messages)
            /\ \A i \in 1..Len(c.messages) :
                  /\ d.messages[i].sender = c.messages[i].sender
                  /\ d.messages[i].content = c.messages[i].content
                  /\ c.messages[i].isRead => d.messages[i].isRead
            /\ Len(d.messages) > Len(c.messages) =>
                  /\ Len(d.messages) = Len(c.messages) + 1
                  /\ \E r \in Reqs : sendMessage_save(r) /\ reqs[r].chatId = c.id
      ]_vars

\* The applicant has marked the chat as read and sent a message: the
\* company's first message is where it was, now read, and the applicant's
\* message follows it.
C27_Witness ==
    \E c \in chats :
        /\ Len(c.messages) = 2
        /\ c.messages[1] = [sender |-> c.companyId, content |-> "Thank you for applying",
                            isRead |-> TRUE]
        /\ c.messages[2].sender = c.userId /\ c.messages[2].content = "hello"

\* C28 (action property): createChat for an applicationId that has a Chat
\* ends at its lookup without an error and leaves the Chat collection as it
\* was, the existing Chat and its messages included; for an applicationId
\* without a Chat it goes on to the save, which inserts one Chat for that
\* applicationId holding exactly one message, unread, whose sender is the
\* company, and changes no other Chat.  After either step at most one Chat
\* has the applicationId.
C28_CreateChatIdempotent ==
    [][\A r \in Reqs :
        /\ createChat_ChatFindOne(r) =>
              /\ chats' = chats
              /\ IF \E c \in chats : c.applicationId = reqs[r].applicationId
                 THEN /\ reqs'[r].pc = "done"
                      /\ reqs'[r].res.error = "" /\ reqs'[r].res.message = ""
                 ELSE reqs'[r].pc = "chatSave" /\ reqs'[r].applicationId = reqs[r].applicationId
        /\ (/\ createChat_chatSave(r)
            /\ \A c \in chats : c.applicationId # reqs[r].applicationId) =>
              /\ reqs'[r].pc = "done" /\ reqs'[r].res.error = ""
              /\ chats \subseteq chats'
              /\ Cardinality(chats' \ chats) = 1
              /\ \A d \in chats' \ chats :
                    /\ d.applicationId = reqs[r].applicationId
                    /\ Len(d.messages) = 1
                    /\ d.messages[1].sender = reqs[r].company
                    /\ d.messages[1].sender \in Companies
                    /\ d.messages[1].sender = d.companyId
                    /\ ~d.messages[1].isRead
        /\ (createChat_ChatFindOne(r) \/ createChat_chatSave(r)) =>
              Cardinality({c \in chats' : c.applicationId = reqs[r].applicationId}) <= 1
      ]_vars

\* After a job was posted and an apply for it was answered, the third
\* request, createChatForApplication for that Application, has ended
\* without an error; the store holds the one Chat of the apply, unchanged.
C28_Witness ==
    /\ received = 3 /\ reqs[2] = Idle
    /\ reqs[1].op = "createChatForApplication" /\ reqs[1].pc = "done"
    /\ reqs[1].res.error = "" /\ reqs[1].res.message = ""
    /\ reqs[1].applicationId = 1
    /\ \E a \in applications :
          chats = {NewChat(1, a.id, a.user, a.company, a.job)} /\ a.id = 1

\* C29 (as claimed): however apply interleaves with updateJob and deleteJob,
\* a step that inserts an Application inserts it for a job that is in the
\* store with status active at that step: none is inserted for a job that
\* has been closed, set to draft or deleted.
C29_InsertedOnlyForActiveJob ==
    [][\A a \in applications' :
        (\A b \in applications : b.id # a.id) =>
            \E j \in jobs : j.id = a.job /\ j.status = "active"
      ]_vars

\* The copies agree with what they were copied from: an Application's
\* company is the company of its Job while the Job is in the store, and a
\* Chat's userId, companyId and jobId are the user, company and job of its
\* Application while the Application is in the store.
C30_Consistent ==
    /\ \A a \in applications, j \in jobs : j.id = a.job => a.company = j.company
    /\ \A c \in chats, a \in applications :
          c.applicationId = a.id =>
              c.userId = a.user /\ c.companyId = a.company /\ c.jobId = a.job

\* C30 (action property): every step ends in a state where the copies agree
\* with what they were copied from, and no step changes the job, user or
\* company of an Application in the store or the applicationId, userId,
\* companyId or jobId of a Chat in the store.
C30_ReferencesWriteOnce ==
    [][/\ C30_Consistent'
       /\ \A a \in applications, b \in applications' :
             b.id = a.id => (b.job = a.job /\ b.user = a.user /\ b.company = a.company)
       /\ \A c \in chats, d \in chats' :
             d.id = c.id => /\ d.applicationId = c.applicationId
                            /\ d.userId = c.userId
                            /\ d.companyId = c.companyId
                            /\ d.jobId = c.jobId
      ]_vars

\* An updateJob whose body carried another company has answered 200; the
\* job, the Application for it and the Application's Chat all name the
\* company that posted the job.
C30_Witness ==
    /\ \E r \in Reqs : /\ reqs[r].op = "updateJob" /\ reqs[r].pc = "done"
                        /\ reqs[r].res.status = 200 /\ reqs[r].bodyCompany = "c2"
    /\ \E j \in jobs, a \in applications, c \in chats :
          /\ j.company = "c1" /\ a.job = j.id /\ a.company = "c1"
          /\ c.applicationId = a.id /\ c.companyId = "c1" /\ c.userId = a.user
          /\ c.jobId = j.id

====
